---- MODULE Spec2Model ----
(***************************************************************************)
(* TaggingInterface (framework/src/interfaces/TaggingInterface.C): the     *)
(* tag-indexed routing of one local residual / Jacobian contribution into  *)
(* the destination blocks of every active vector / matrix tag.             *)
(***************************************************************************)
EXTENDS Integers, Sequences, FiniteSets, TLC

\* ------------------------------------------------------------------ bounds
\* longest configured tag selection (vector_tags, matrix_tags)
MaxNames == 2
\* longest extra-tag list (extra_vector_tags, extra_matrix_tags)
MaxExtras == 1
\* largest value the physics code writes into one scratch-buffer entry
MaxFill == 1
\* number of accumulate/assign calls explored in one run
MaxCommits == 2

\* ------------------------------------------------------- the environment
\* the name of the owning MooseObject (_moose_object.name())
OwnerName == "kernel0"

\* the variables of the system and the number of dofs of each on the element
Vars == {0, 1}

BlockSize(var) == var + 1

\* tag names a user can write in vector_tags / extra_vector_tags / useVectorTag
VectorTagNames == {"nontime", "time", "ghost"}

MatrixTagNames == {"nontime", "system", "ghost"}

\* tag ids a caller can pass to useVectorTag(TagID) / useMatrixTag(TagID)
TagIDs == {0, 1, 2}

\* SubProblem's name -> id maps after setup: "ghost" and id 2 are not registered
VectorTagRegistry == [n \in {"nontime", "time"} |-> IF n = "time" THEN 0 ELSE 1]

MatrixTagRegistry == [n \in {"nontime", "system"} |-> IF n = "nontime" THEN 0 ELSE 1]

\* an unset entry of _re_blocks / _ke_blocks (a null pointer)
Null == <<>>

NoError == [kind |-> "none", msg |-> <<>>]

\* what the build can do on a dereference of a null block pointer
UBOutcomes == {"crash", "silent"}

VARIABLES
  _tag_params,          \* the owner's parameters: the four tag-name lists
  call,                 \* the last operation invoked on the interface
  phase,                \* "unconstructed", "constructed", "failed" (no object), "aborted"
                        \* (a fatal error ended the run), "crashed"
  err,                  \* the error the last operation raised: [kind, msg]
  vector_registry,      \* SubProblem: vector tag name -> TagID
  matrix_registry,      \* SubProblem: matrix tag name -> TagID
  _vector_tags,         \* std::set<TagID>, as its ascending iteration sequence
  _matrix_tags,
  _re_blocks,           \* std::vector<DenseVector *>: <<ivar, tag>> or Null
  _ke_blocks,           \* std::vector<DenseMatrix *>: <<ivar, jvar, tag>> or Null
  _local_re,            \* DenseVector<Number>
  _local_ke,            \* DenseMatrix<Number>, a sequence of rows
  residual,             \* Assembly: <<ivar, tag>> -> vector block
  jacobian,             \* Assembly: <<ivar, jvar, tag>> -> matrix block
  vcycle,               \* the caller's record of the current vector cycle
  mcycle,               \* the caller's record of the current matrix cycle
  commits               \* accumulate/assign calls made so far

vars == <<_tag_params, call, phase, err, vector_registry, matrix_registry, _vector_tags, _matrix_tags,
          _re_blocks, _ke_blocks, _local_re, _local_ke, residual, jacobian,
          vcycle, mcycle, commits>>

\* ------------------------------------------------------------ containers
Range(s) == {s[i] : i \in DOMAIN s}

SeqsUpTo(S, n) == UNION {[1..k -> S] : k \in 0..n}

\* fault variant of SetInsert: the new element replaces the set
SetInsertReplacing(tags, id) == <<id>>

\* fault variant of SetInsert: the new element goes to the end
SetInsertAtEnd(tags, id) == IF id \in Range(tags) THEN tags ELSE Append(tags, id)

\* fault variant of SetInsert: a multiset insert, which keeps duplicates
SetInsertDuplicate(tags, id) ==
  LET lo == SelectSeq(tags, LAMBDA t : t <= id)
      hi == SelectSeq(tags, LAMBDA t : t > id)
  IN  lo \o <<id>> \o hi

\* std::set<TagID>::insert on the ascending sequence of the set's elements
SetInsert(tags, id) ==
  IF id \in Range(tags) THEN tags
  ELSE LET lo == SelectSeq(tags, LAMBDA t : t < id)
           hi == SelectSeq(tags, LAMBDA t : t > id)
       IN  lo \o <<id>> \o hi

\* fault variant of Resize: the array keeps its old length
ResizeNever(blocks, n) == blocks

\* std::vector<T *>::resize(n): keeps the first entries, value-initialises the rest
Resize(blocks, n) == [i \in 1..n |-> IF i <= Len(blocks) THEN blocks[i] ELSE Null]

\* fault variant of ResizeAndZeroVector: the zero() call is missing
ResizeOnlyVector(local, n) == [i \in 1..n |-> IF i <= Len(local) THEN local[i] ELSE 0]

\* _local_re.resize(n); _local_re.zero();
ResizeAndZeroVector(local, n) == [i \in 1..n |-> 0]

\* fault variant of ResizeAndZeroMatrix: rows and columns are swapped
ResizeTransposedMatrix(local, m, n) == [i \in 1..n |-> [j \in 1..m |-> 0]]

\* _local_ke.resize(m, n); _local_ke.zero();
ResizeAndZeroMatrix(local, m, n) == [i \in 1..m |-> [j \in 1..n |-> 0]]

Rows(mat) == Len(mat)

Cols(mat) == IF Len(mat) = 0 THEN 0 ELSE Len(mat[1])

\* fault variant of VectorAdd: the block is overwritten instead of added to
VectorAddAsAssign(block, local) == local

\* DenseVector::operator+=
VectorAdd(block, local) == [i \in 1..Len(block) |-> block[i] + local[i]]

\* fault variant of VectorAssign: the block is added to instead of overwritten
VectorAssignAsAdd(block, local) == [i \in 1..Len(block) |-> block[i] + local[i]]

\* DenseVector::operator=
VectorAssign(block, local) == local

\* fault variant of MatrixAdd: the contribution replaces the block
MatrixAddAsAssign(block, local) == local

\* DenseMatrix::operator+=
MatrixAdd(block, local) ==
  [i \in 1..Len(block) |-> [j \in 1..Len(block[i]) |-> block[i][j] + local[i][j]]]

\* DenseMatrix::operator=
MatrixAssign(block, local) == local

\* ---------------------------------------------------------- Tag Registry
\* SubProblem::vectorTagExists(name) / matrixTagExists(name)
TagExistsName(registry, tag_name) == tag_name \in DOMAIN registry

\* SubProblem::vectorTagExists(id) / matrixTagExists(id)
TagExistsID(registry, tag_id) == \E n \in DOMAIN registry : registry[n] = tag_id

\* SubProblem::getVectorTagID / getMatrixTagID: the id, or a lookup error
GetTagID(registry, tag_name, what) ==
  IF tag_name \in DOMAIN registry
  THEN [ok |-> TRUE, id |-> registry[tag_name], err |-> NoError]
  ELSE [ok |-> FALSE, id |-> 0,
        err |-> [kind |-> "lookup",
                 msg |-> <<what, " tag: ", tag_name, " does not exist for ", OwnerName>>]]

\* MultiMooseEnum::isValid(): at least one value is selected
IsValid(selection) == Len(selection) >= 1

\* ------------------------------------------------------------ constructor
\* fault variant of InsertResolved: only the first name of the list is inserted
InsertResolvedFirstOnly(tags, names, registry, what) ==
  IF names = <<>> THEN [tags |-> tags, err |-> NoError]
  ELSE LET r == GetTagID(registry, Head(names), what)
       IN  IF ~r.ok THEN [tags |-> tags, err |-> r.err]
           ELSE [tags |-> SetInsert(tags, r.id), err |-> NoError]

\* fault variant of InsertResolved: an unresolved name is skipped without an error
RECURSIVE InsertResolvedSkipping(_, _, _, _)
InsertResolvedSkipping(tags, names, registry, what) ==
  IF names = <<>> THEN [tags |-> tags, err |-> NoError]
  ELSE LET r == GetTagID(registry, Head(names), what)
       IN  InsertResolvedSkipping(IF r.ok THEN SetInsert(tags, r.id) ELSE tags,
                                  Tail(names), registry, what)

\* the insert loops of the constructor: every name is resolved and inserted in
\* turn; the first unresolved name raises and ends the loop
RECURSIVE InsertResolved(_, _, _, _)
InsertResolved(tags, names, registry, what) ==
  IF names = <<>> THEN [tags |-> tags, err |-> NoError]
  ELSE LET r == GetTagID(registry, Head(names), what)
       IN  IF ~r.ok THEN [tags |-> tags, err |-> r.err]
           ELSE InsertResolved(SetInsert(tags, r.id), Tail(names), registry, what)

ConfigError(what) ==
  [kind |-> "config",
   msg |-> <<"MUST provide at least one ", what, " for Kernel: ", OwnerName>>]

\* fault variant of CheckSelection: the validity check is missing
CheckSelectionNever(selection, what) == NoError

\* if (!vector_tag_names.isValid()) mooseError(...)
CheckSelection(selection, what) ==
  IF ~IsValid(selection) THEN ConfigError(what) ELSE NoError

\* the members the constructor leaves behind and the error it raised, if any
ConstructResult(params) ==
  LET vector_tag_names == params.vector_tags
      extra_vector_tags == params.extra_vector_tags
      matrix_tag_names == params.matrix_tags
      extra_matrix_tags == params.extra_matrix_tags
      none == [vt |-> <<>>, mt |-> <<>>, re |-> <<>>, ke |-> <<>>]
  IN
  IF CheckSelection(vector_tag_names, "vector_tag").kind # "none"
  THEN none @@ [err |-> CheckSelection(vector_tag_names, "vector_tag")]
  ELSE
  LET v1 == InsertResolved(<<>>, vector_tag_names, vector_registry, "Vector") IN
  IF v1.err.kind # "none" THEN [none EXCEPT !.vt = v1.tags] @@ [err |-> v1.err]
  ELSE
  LET v2 == InsertResolved(v1.tags, extra_vector_tags, vector_registry, "Vector") IN
  IF v2.err.kind # "none" THEN [none EXCEPT !.vt = v2.tags] @@ [err |-> v2.err]
  ELSE
  IF CheckSelection(matrix_tag_names, "matrix_tag").kind # "none"
  THEN [none EXCEPT !.vt = v2.tags] @@ [err |-> CheckSelection(matrix_tag_names, "matrix_tag")]
  ELSE
  LET m1 == InsertResolved(<<>>, matrix_tag_names, matrix_registry, "Matrix") IN
  IF m1.err.kind # "none"
  THEN [none EXCEPT !.vt = v2.tags, !.mt = m1.tags] @@ [err |-> m1.err]
  ELSE
  LET m2 == InsertResolved(m1.tags, extra_matrix_tags, matrix_registry, "Matrix") IN
  IF m2.err.kind # "none"
  THEN [none EXCEPT !.vt = v2.tags, !.mt = m2.tags] @@ [err |-> m2.err]
  ELSE [vt |-> v2.tags, mt |-> m2.tags,
        re |-> Resize(<<>>, Len(v2.tags)), ke |-> Resize(<<>>, Len(m2.tags)),
        err |-> NoError]

\* --------------------------------------------------------- initial states
NoCall == [op |-> "none", name |-> "", id |-> -1, ivar |-> -1, jvar |-> -1]

NoCycle(blocks) ==
  [ivar |-> -1, jvar |-> -1, tags |-> <<>>, filled |-> FALSE, x |-> <<>>,
   pre |-> blocks, calls |-> <<>>]

\* the blocks the Assembly holds for every variable and registered tag
ResidualRefs == {<<v, t>> : v \in Vars, t \in Range(VectorTagRegistry)}

\* the variable pairs that couple on the element
VarPairs == {<<0, 0>>, <<0, 1>>}

JacobianRefs == {<<p[1], p[2], t>> : p \in VarPairs, t \in Range(MatrixTagRegistry)}

\* every parameter set a user can write
AllParams ==
  [vector_tags : SeqsUpTo(VectorTagNames, MaxNames),
   extra_vector_tags : SeqsUpTo(VectorTagNames, MaxExtras),
   matrix_tags : SeqsUpTo(MatrixTagNames, MaxNames),
   extra_matrix_tags : SeqsUpTo(MatrixTagNames, MaxExtras)]

\* the declared defaults (vector_tags = "nontime", matrix_tags = "system") and the
\* selection of both vector tags
DefaultParams ==
  [vector_tags : {<<"nontime">>, <<"nontime", "time">>},
   extra_vector_tags : {<<>>},
   matrix_tags : {<<"system">>},
   extra_matrix_tags : {<<>>}]

InitWith(params) ==
  /\ _tag_params \in params
  /\ call = NoCall
  /\ phase = "unconstructed"
  /\ err = NoError
  /\ vector_registry = VectorTagRegistry
  /\ matrix_registry = MatrixTagRegistry
  /\ _vector_tags = <<>>
  /\ _matrix_tags = <<>>
  /\ _re_blocks = <<>>
  /\ _ke_blocks = <<>>
  /\ _local_re = <<>>
  /\ _local_ke = <<>>
  /\ residual = [r \in ResidualRefs |-> [i \in 1..BlockSize(r[1]) |-> r[1] + r[2]]]
  /\ jacobian = [r \in JacobianRefs |->
                   [i \in 1..BlockSize(r[1]) |-> [j \in 1..BlockSize(r[2]) |-> r[2] + r[3]]]]
  /\ vcycle = NoCycle(residual)
  /\ mcycle = NoCycle(jacobian)
  /\ commits = 0

Init == InitWith(DefaultParams)

\* the default selection of both namespaces: "nontime" vectors, "system" matrices
MatrixParams ==
  [vector_tags : {<<"nontime">>}, extra_vector_tags : {<<>>},
   matrix_tags : {<<"system">>}, extra_matrix_tags : {<<>>}]

InitMatrix == InitWith(MatrixParams)

InitSetup == InitWith(AllParams)

\* ------------------------------------------------------------ operations
\* TaggingInterface::TaggingInterface
Construct ==
  /\ phase = "unconstructed"
  /\ LET r == ConstructResult(_tag_params) IN
     /\ phase' = IF r.err.kind = "none" THEN "constructed" ELSE "failed"
     /\ err' = r.err
     /\ _vector_tags' = r.vt
     /\ _matrix_tags' = r.mt
     /\ _re_blocks' = r.re
     /\ _ke_blocks' = r.ke
  /\ call' = [NoCall EXCEPT !.op = "construct"]
  /\ UNCHANGED <<_tag_params, vector_registry, matrix_registry, _local_re, _local_ke,
                 residual, jacobian, vcycle, mcycle, commits>>

\* mooseError ends the run, or throws (Moose::_throw_on_error) to a caller that goes on
ErrorOutcomes == {"abort", "throw"}

Raised == \E outcome \in ErrorOutcomes : phase' = IF outcome = "abort" THEN "aborted" ELSE phase

UseError(what, tag) ==
  [kind |-> "lookup", msg |-> <<what, " tag ", tag, " does not exsit in system">>]

\* TaggingInterface::useVectorTag(const TagName &)
UseVectorTagName(tag_name) ==
  /\ phase = "constructed"
  /\ call' = [NoCall EXCEPT !.op = "useVectorTag", !.name = tag_name]
  /\ IF ~TagExistsName(vector_registry, tag_name)
     THEN /\ err' = UseError("Vector", tag_name)
          /\ Raised
          /\ UNCHANGED _vector_tags
     ELSE /\ _vector_tags' = SetInsert(_vector_tags, GetTagID(vector_registry, tag_name, "Vector").id)
          /\ err' = NoError
          /\ UNCHANGED phase
  /\ UNCHANGED <<_tag_params, vector_registry, matrix_registry, _matrix_tags, _re_blocks,
                 _ke_blocks, _local_re, _local_ke, residual, jacobian, vcycle, mcycle, commits>>

\* TaggingInterface::useMatrixTag(const TagName &)
UseMatrixTagName(tag_name) ==
  /\ phase = "constructed"
  /\ call' = [NoCall EXCEPT !.op = "useMatrixTag", !.name = tag_name]
  /\ IF ~TagExistsName(matrix_registry, tag_name)
     THEN /\ err' = UseError("Matrix", tag_name)
          /\ Raised
          /\ UNCHANGED _matrix_tags
     ELSE /\ _matrix_tags' = SetInsert(_matrix_tags, GetTagID(matrix_registry, tag_name, "Matrix").id)
          /\ err' = NoError
          /\ UNCHANGED phase
  /\ UNCHANGED <<_tag_params, vector_registry, matrix_registry, _vector_tags, _re_blocks,
                 _ke_blocks, _local_re, _local_ke, residual, jacobian, vcycle, mcycle, commits>>

\* fault variant of UseVectorTagID: the id also goes into the matrix-tag set
UseVectorTagIDInBothSets(tag_id) ==
  /\ phase = "constructed"
  /\ call' = [NoCall EXCEPT !.op = "useVectorTag", !.id = tag_id]
  /\ IF ~TagExistsID(vector_registry, tag_id)
     THEN /\ err' = UseError("Vector", ToString(tag_id))
          /\ Raised
          /\ UNCHANGED <<_vector_tags, _matrix_tags>>
     ELSE /\ _vector_tags' = SetInsert(_vector_tags, tag_id)
          /\ _matrix_tags' = SetInsert(_matrix_tags, tag_id)
          /\ err' = NoError
          /\ UNCHANGED phase
  /\ UNCHANGED <<_tag_params, vector_registry, matrix_registry, _re_blocks,
                 _ke_blocks, _local_re, _local_ke, residual, jacobian, vcycle, mcycle, commits>>

\* fault variant of UseVectorTagID: the existence check is missing
UseVectorTagIDUnchecked(tag_id) ==
  /\ phase = "constructed"
  /\ call' = [NoCall EXCEPT !.op = "useVectorTag", !.id = tag_id]
  /\ _vector_tags' = SetInsert(_vector_tags, tag_id)
  /\ err' = NoError
  /\ UNCHANGED phase
  /\ UNCHANGED <<_tag_params, vector_registry, matrix_registry, _matrix_tags, _re_blocks,
                 _ke_blocks, _local_re, _local_ke, residual, jacobian, vcycle, mcycle, commits>>

\* TaggingInterface::useVectorTag(TagID)
UseVectorTagID(tag_id) ==
  /\ phase = "constructed"
  /\ call' = [NoCall EXCEPT !.op = "useVectorTag", !.id = tag_id]
  /\ IF ~TagExistsID(vector_registry, tag_id)
     THEN /\ err' = UseError("Vector", ToString(tag_id))
          /\ Raised
          /\ UNCHANGED _vector_tags
     ELSE /\ _vector_tags' = SetInsert(_vector_tags, tag_id)
          /\ err' = NoError
          /\ UNCHANGED phase
  /\ UNCHANGED <<_tag_params, vector_registry, matrix_registry, _matrix_tags, _re_blocks,
                 _ke_blocks, _local_re, _local_ke, residual, jacobian, vcycle, mcycle, commits>>

\* TaggingInterface::useMatrixTag(TagID)
UseMatrixTagID(tag_id) ==
  /\ phase = "constructed"
  /\ call' = [NoCall EXCEPT !.op = "useMatrixTag", !.id = tag_id]
  /\ IF ~TagExistsID(matrix_registry, tag_id)
     THEN /\ err' = UseError("Matrix", ToString(tag_id))
          /\ Raised
          /\ UNCHANGED _matrix_tags
     ELSE /\ _matrix_tags' = SetInsert(_matrix_tags, tag_id)
          /\ err' = NoError
          /\ UNCHANGED phase
  /\ UNCHANGED <<_tag_params, vector_registry, matrix_registry, _vector_tags, _re_blocks,
                 _ke_blocks, _local_re, _local_ke, residual, jacobian, vcycle, mcycle, commits>>

\* fault variant of BindResidualBlocks: an entry that is bound already is kept
BindOnlyUnboundBlocks(blocks, tags, ivar) ==
  [i \in 1..Len(blocks) |->
     IF i <= Len(tags) /\ blocks[i] = Null THEN <<ivar, tags[i]>> ELSE blocks[i]]

\* the binding loop of prepareVectorTag: entry i refers to the block of the
\* i-th tag of the set
BindResidualBlocks(blocks, tags, ivar) ==
  [i \in 1..Len(blocks) |-> IF i <= Len(tags) THEN <<ivar, tags[i]>> ELSE blocks[i]]

\* the binding loop of prepareMatrixTag
BindJacobianBlocks(blocks, tags, ivar, jvar) ==
  [i \in 1..Len(blocks) |-> IF i <= Len(tags) THEN <<ivar, jvar, tags[i]>> ELSE blocks[i]]

AssertError == [kind |-> "assertion", msg |-> <<"we need at least one active tag">>]

\* mooseAssert(_vector_tags.size() >= 1, ...) on an empty set: a debug build reports
\* the failed assertion; an optimised build reads _re_blocks[0] out of bounds
AssertionFails ==
  \/ phase' = "aborted" /\ err' = AssertError
  \/ phase' = "crashed" /\ UNCHANGED err

\* TaggingInterface::prepareVectorTag
PrepareVectorTag(ivar) ==
  /\ phase = "constructed"
  /\ call' = [NoCall EXCEPT !.op = "prepareVectorTag", !.ivar = ivar]
  /\ IF Len(_vector_tags) = 0
     THEN /\ AssertionFails
          /\ UNCHANGED <<_re_blocks, _local_re, vcycle>>
     ELSE /\ _re_blocks' = BindResidualBlocks(Resize(_re_blocks, Len(_vector_tags)),
                                               _vector_tags, ivar)
          /\ _local_re' = ResizeAndZeroVector(_local_re, Len(residual[_re_blocks'[1]]))
          /\ vcycle' = [NoCycle(residual) EXCEPT !.ivar = ivar, !.tags = _vector_tags]
          /\ err' = NoError
          /\ UNCHANGED phase
  /\ UNCHANGED <<_tag_params, vector_registry, matrix_registry, _vector_tags,
                 _matrix_tags, _ke_blocks, _local_ke, residual, jacobian, mcycle, commits>>

\* TaggingInterface::prepareMatrixTag
PrepareMatrixTag(ivar, jvar) ==
  /\ phase = "constructed"
  /\ call' = [NoCall EXCEPT !.op = "prepareMatrixTag", !.ivar = ivar, !.jvar = jvar]
  /\ IF Len(_matrix_tags) = 0
     THEN /\ AssertionFails
          /\ UNCHANGED <<_ke_blocks, _local_ke, mcycle>>
     ELSE /\ _ke_blocks' = BindJacobianBlocks(Resize(_ke_blocks, Len(_matrix_tags)),
                                               _matrix_tags, ivar, jvar)
          /\ _local_ke' = ResizeAndZeroMatrix(_local_ke, Rows(jacobian[_ke_blocks'[1]]),
                                              Cols(jacobian[_ke_blocks'[1]]))
          /\ mcycle' = [NoCycle(jacobian) EXCEPT !.ivar = ivar, !.jvar = jvar,
                                                 !.tags = _matrix_tags]
          /\ err' = NoError
          /\ UNCHANGED phase
  /\ UNCHANGED <<_tag_params, vector_registry, matrix_registry, _vector_tags,
                 _matrix_tags, _re_blocks, _local_re, residual, jacobian, vcycle, commits>>

\* the owning computation writes its contribution into the sized scratch vector
FillLocalRe(x) ==
  /\ phase = "constructed"
  /\ Len(_local_re) >= 1
  /\ Len(x) = Len(_local_re)
  /\ call' = [NoCall EXCEPT !.op = "fillResidual"]
  /\ _local_re' = x
  /\ vcycle' = [vcycle EXCEPT !.filled = TRUE, !.x = x, !.pre = residual, !.calls = <<>>]
  /\ err' = NoError
  /\ UNCHANGED <<_tag_params, phase, vector_registry, matrix_registry, _vector_tags,
                 _matrix_tags, _re_blocks, _ke_blocks, _local_ke, residual, jacobian,
                 mcycle, commits>>

\* the owning computation writes its contribution into the sized scratch matrix
FillLocalKe(x) ==
  /\ phase = "constructed"
  /\ Rows(_local_ke) >= 1
  /\ Rows(x) = Rows(_local_ke)
  /\ Cols(x) = Cols(_local_ke)
  /\ call' = [NoCall EXCEPT !.op = "fillJacobian"]
  /\ _local_ke' = x
  /\ mcycle' = [mcycle EXCEPT !.filled = TRUE, !.x = x, !.pre = jacobian, !.calls = <<>>]
  /\ err' = NoError
  /\ UNCHANGED <<_tag_params, phase, vector_registry, matrix_registry, _vector_tags,
                 _matrix_tags, _re_blocks, _ke_blocks, _local_re, residual, jacobian,
                 vcycle, commits>>

\* fault variant of AccumulateResidualBlocks: only the first bound block is updated
AccumulateFirstBlockOnly(blocks, refs, local) ==
  IF refs = <<>> THEN blocks
  ELSE [blocks EXCEPT ![Head(refs)] = VectorAdd(@, local)]

\* for (auto & re : _re_blocks) *re += _local_re;
RECURSIVE AccumulateResidualBlocks(_, _, _)
AccumulateResidualBlocks(blocks, refs, local) ==
  IF refs = <<>> THEN blocks
  ELSE AccumulateResidualBlocks([blocks EXCEPT ![Head(refs)] = VectorAdd(@, local)],
                                Tail(refs), local)

\* fault variant of AssignResidualBlocks: every block of the scratch vector's size
\* is written, bound or not
AssignEveryResidualBlock(blocks, refs, local) ==
  [r \in DOMAIN blocks |-> IF Len(blocks[r]) = Len(local) THEN local ELSE blocks[r]]

\* for (auto & re : _re_blocks) *re = _local_re;
RECURSIVE AssignResidualBlocks(_, _, _)
AssignResidualBlocks(blocks, refs, local) ==
  IF refs = <<>> THEN blocks
  ELSE AssignResidualBlocks([blocks EXCEPT ![Head(refs)] = VectorAssign(@, local)],
                            Tail(refs), local)

\* for (auto & ke : _ke_blocks) *ke += _local_ke;
RECURSIVE AccumulateJacobianBlocks(_, _, _)
AccumulateJacobianBlocks(blocks, refs, local) ==
  IF refs = <<>> THEN blocks
  ELSE AccumulateJacobianBlocks([blocks EXCEPT ![Head(refs)] = MatrixAdd(@, local)],
                                Tail(refs), local)

\* for (auto & ke : _ke_blocks) *ke = _local_ke;
RECURSIVE AssignJacobianBlocks(_, _, _)
AssignJacobianBlocks(blocks, refs, local) ==
  IF refs = <<>> THEN blocks
  ELSE AssignJacobianBlocks([blocks EXCEPT ![Head(refs)] = MatrixAssign(@, local)],
                            Tail(refs), local)

HasNull(refs) == \E i \in DOMAIN refs : refs[i] = Null

\* a commit through a null block pointer: the build crashes or goes on
NullDereference ==
  \E outcome \in UBOutcomes :
     phase' = IF outcome = "crash" THEN "crashed" ELSE phase

\* TaggingInterface::accumulateTaggedLocalResidual
AccumulateTaggedLocalResidual ==
  /\ phase = "constructed"
  /\ commits < MaxCommits
  /\ commits' = commits + 1
  /\ call' = [NoCall EXCEPT !.op = "accumulateTaggedLocalResidual"]
  /\ vcycle' = [vcycle EXCEPT !.calls = Append(@, "accumulate")]
  /\ IF HasNull(_re_blocks)
     THEN NullDereference /\ UNCHANGED residual
     ELSE /\ residual' = AccumulateResidualBlocks(residual, _re_blocks, _local_re)
          /\ UNCHANGED phase
  /\ err' = NoError
  /\ UNCHANGED <<_tag_params, vector_registry, matrix_registry, _vector_tags,
                 _matrix_tags, _re_blocks, _ke_blocks, _local_re, _local_ke, jacobian,
                 mcycle>>

\* TaggingInterface::assignTaggedLocalResidual
AssignTaggedLocalResidual ==
  /\ phase = "constructed"
  /\ commits < MaxCommits
  /\ commits' = commits + 1
  /\ call' = [NoCall EXCEPT !.op = "assignTaggedLocalResidual"]
  /\ vcycle' = [vcycle EXCEPT !.calls = Append(@, "assign")]
  /\ IF HasNull(_re_blocks)
     THEN NullDereference /\ UNCHANGED residual
     ELSE /\ residual' = AssignResidualBlocks(residual, _re_blocks, _local_re)
          /\ UNCHANGED phase
  /\ err' = NoError
  /\ UNCHANGED <<_tag_params, vector_registry, matrix_registry, _vector_tags,
                 _matrix_tags, _re_blocks, _ke_blocks, _local_re, _local_ke, jacobian,
                 mcycle>>

\* TaggingInterface::accumulateTaggedLocalMatrix
AccumulateTaggedLocalMatrix ==
  /\ phase = "constructed"
  /\ commits < MaxCommits
  /\ commits' = commits + 1
  /\ call' = [NoCall EXCEPT !.op = "accumulateTaggedLocalMatrix"]
  /\ mcycle' = [mcycle EXCEPT !.calls = Append(@, "accumulate")]
  /\ IF HasNull(_ke_blocks)
     THEN NullDereference /\ UNCHANGED jacobian
     ELSE /\ jacobian' = AccumulateJacobianBlocks(jacobian, _ke_blocks, _local_ke)
          /\ UNCHANGED phase
  /\ err' = NoError
  /\ UNCHANGED <<_tag_params, vector_registry, matrix_registry, _vector_tags,
                 _matrix_tags, _re_blocks, _ke_blocks, _local_re, _local_ke, residual,
                 vcycle>>

\* fault variant of AssignTaggedLocalMatrix: the scratch matrix is zeroed after the copy
AssignTaggedLocalMatrixClearing ==
  /\ phase = "constructed"
  /\ commits < MaxCommits
  /\ commits' = commits + 1
  /\ call' = [NoCall EXCEPT !.op = "assignTaggedLocalMatrix"]
  /\ mcycle' = [mcycle EXCEPT !.calls = Append(@, "assign")]
  /\ IF HasNull(_ke_blocks)
     THEN NullDereference /\ UNCHANGED jacobian
     ELSE /\ jacobian' = AssignJacobianBlocks(jacobian, _ke_blocks, _local_ke)
          /\ UNCHANGED phase
  /\ _local_ke' = ResizeAndZeroMatrix(_local_ke, Rows(_local_ke), Cols(_local_ke))
  /\ err' = NoError
  /\ UNCHANGED <<_tag_params, vector_registry, matrix_registry, _vector_tags,
                 _matrix_tags, _re_blocks, _ke_blocks, _local_re, residual, vcycle>>

\* TaggingInterface::assignTaggedLocalMatrix
AssignTaggedLocalMatrix ==
  /\ phase = "constructed"
  /\ commits < MaxCommits
  /\ commits' = commits + 1
  /\ call' = [NoCall EXCEPT !.op = "assignTaggedLocalMatrix"]
  /\ mcycle' = [mcycle EXCEPT !.calls = Append(@, "assign")]
  /\ IF HasNull(_ke_blocks)
     THEN NullDereference /\ UNCHANGED jacobian
     ELSE /\ jacobian' = AssignJacobianBlocks(jacobian, _ke_blocks, _local_ke)
          /\ UNCHANGED phase
  /\ err' = NoError
  /\ UNCHANGED <<_tag_params, vector_registry, matrix_registry, _vector_tags,
                 _matrix_tags, _re_blocks, _ke_blocks, _local_re, _local_ke, residual,
                 vcycle>>

\* --------------------------------------------------------- specifications
UseVectorTagByName == \E n \in VectorTagNames : UseVectorTagName(n)

UseMatrixTagByName == \E n \in MatrixTagNames : UseMatrixTagName(n)

UseVectorTagByID == \E t \in TagIDs : UseVectorTagID(t)

UseMatrixTagByID == \E t \in TagIDs : UseMatrixTagID(t)

PrepareVector == \E v \in Vars : PrepareVectorTag(v)

PrepareMatrix == \E p \in VarPairs : PrepareMatrixTag(p[1], p[2])

FillResidual == \E x \in [1..Len(_local_re) -> 0..MaxFill] : FillLocalRe(x)

FillJacobian ==
  \E x \in [1..Rows(_local_ke) -> [1..Cols(_local_ke) -> 0..MaxFill]] : FillLocalKe(x)

NextSetup ==
  \/ Construct
  \/ UseVectorTagByName
  \/ UseMatrixTagByName
  \/ UseVectorTagByID
  \/ UseMatrixTagByID

NextBind ==
  \/ NextSetup
  \/ PrepareVector
  \/ PrepareMatrix

NextVector ==
  \/ Construct
  \/ UseVectorTagByName
  \/ UseVectorTagByID
  \/ PrepareVector
  \/ FillResidual
  \/ AccumulateTaggedLocalResidual
  \/ AssignTaggedLocalResidual

NextMatrix ==
  \/ Construct
  \/ UseMatrixTagByName
  \/ UseMatrixTagByID
  \/ PrepareMatrix
  \/ FillJacobian
  \/ AccumulateTaggedLocalMatrix
  \/ AssignTaggedLocalMatrix

\* useVectorTag / useMatrixTag with the ids the registry holds
UseRegisteredVectorTag == \E t \in Range(vector_registry) : UseVectorTagID(t)

UseRegisteredMatrixTag == \E t \in Range(matrix_registry) : UseMatrixTagID(t)

\* the largest contribution written to every entry
FillMixedResidual == FillLocalRe([i \in 1..Len(_local_re) |-> MaxFill])

FillMixedJacobian ==
  FillLocalKe([i \in 1..Rows(_local_ke) |-> [j \in 1..Cols(_local_ke) |-> MaxFill]])

NextMixed ==
  \/ Construct
  \/ UseRegisteredVectorTag
  \/ UseRegisteredMatrixTag
  \/ PrepareVector
  \/ PrepareMatrix
  \/ FillMixedResidual
  \/ FillMixedJacobian
  \/ AccumulateTaggedLocalResidual
  \/ AssignTaggedLocalResidual
  \/ AccumulateTaggedLocalMatrix
  \/ AssignTaggedLocalMatrix

\* construction from every parameter set, and tag selection
SpecSetup == InitSetup /\ [][NextSetup]_vars

\* one object through setup and the binding of blocks in both namespaces
SpecBind == Init /\ [][NextBind]_vars

\* one object through setup and residual assembly
SpecVector == Init /\ [][NextVector]_vars

\* one object through setup and Jacobian assembly
SpecMatrix == InitMatrix /\ [][NextMatrix]_vars

\* one object through residual and Jacobian assembly interleaved
SpecMixed == InitMatrix /\ [][NextMixed]_vars

\* ----------------------------------------------------------------- claims
\* the blocks the caller prepared: those of the prepared variable, one per tag that
\* was active at the prepareVectorTag call
PreparedResidualRefs == {<<vcycle.ivar, t>> : t \in Range(vcycle.tags)}

Last(s) == s[Len(s)]

\* C1: after prepareVectorTag(v) and a fill with x, two accumulateTaggedLocalResidual
\* calls leave every bound block equal to its value at the fill plus 2x, entry by entry
C1_AccumulateTwiceAddsTwice ==
  (phase = "constructed" /\ vcycle.filled
     /\ vcycle.calls = <<"accumulate", "accumulate">>)
  => /\ Range(_re_blocks) = PreparedResidualRefs
     /\ \A r \in PreparedResidualRefs :
          residual[r] = [k \in 1..Len(vcycle.x) |-> vcycle.pre[r][k] + 2 * vcycle.x[k]]

C1_Witness ==
  /\ phase = "constructed"
  /\ vcycle.filled
  /\ vcycle.calls = <<"accumulate", "accumulate">>
  /\ vcycle.ivar = 1
  /\ Len(vcycle.tags) = 2
  /\ vcycle.x = <<1, 0>>
  /\ residual[<<1, 1>>] = <<4, 2>>

\* C2: after prepareVectorTag(v) and a fill with x, assignTaggedLocalResidual leaves
\* every bound block equal to x, whatever it held before
C2_AssignOverwrites ==
  (phase = "constructed" /\ vcycle.filled /\ vcycle.calls # <<>>
     /\ Last(vcycle.calls) = "assign")
  => /\ Range(_re_blocks) = PreparedResidualRefs
     /\ \A r \in PreparedResidualRefs : residual[r] = vcycle.x

C2_Witness ==
  /\ phase = "constructed"
  /\ vcycle.filled
  /\ vcycle.calls = <<"accumulate", "assign">>
  /\ vcycle.ivar = 1
  /\ Len(vcycle.tags) = 2
  /\ vcycle.x = <<0, 1>>
  /\ vcycle.pre[<<1, 1>>] = <<2, 2>>

\* C3: one accumulateTaggedLocalResidual after prepareVectorTag(v) and a fill with x
\* adds x to residualBlock(v, t) for every tag t of the active vector-tag set; with
\* vector tags nontime and time, prepareVectorTag(0) binds two blocks
C3_AccumulateReachesEveryTag ==
  (phase = "constructed" /\ vcycle.filled /\ vcycle.calls = <<"accumulate">>
     /\ _vector_tags = vcycle.tags)
  => /\ Len(_re_blocks) = Len(_vector_tags)
     /\ \A t \in Range(_vector_tags) :
          residual[<<vcycle.ivar, t>>] =
            [k \in 1..BlockSize(vcycle.ivar) |-> vcycle.pre[<<vcycle.ivar, t>>][k] + vcycle.x[k]]

C3_Witness ==
  /\ phase = "constructed"
  /\ _tag_params.vector_tags = <<"nontime", "time">>
  /\ _tag_params.matrix_tags = <<"system">>
  /\ vcycle.filled
  /\ vcycle.calls = <<"accumulate">>
  /\ vcycle.ivar = 0
  /\ vcycle.x = <<1>>
  /\ Len(_re_blocks) = 2
  /\ residual[<<0, vector_registry["nontime"]>>] = <<2>>
  /\ residual[<<0, vector_registry["time"]>>] = <<1>>

\* C4: right after prepareVectorTag(v) there is one bound block per active vector tag,
\* and the scratch vector has the size of the first bound block and holds only zeros
C4_PrepareBindsAndZeroes ==
  (phase = "constructed" /\ call.op = "prepareVectorTag")
  => /\ Len(_re_blocks) = Len(_vector_tags)
     /\ ~HasNull(_re_blocks)
     /\ Len(_local_re) = Len(residual[_re_blocks[1]])
     /\ Len(_local_re) = BlockSize(call.ivar)
     /\ \A k \in 1..Len(_local_re) : _local_re[k] = 0

\* prepared for variable 1 after a commit of a non-zero scratch vector for variable 0
C4_Witness ==
  /\ phase = "constructed"
  /\ call.op = "prepareVectorTag"
  /\ call.ivar = 1
  /\ Len(_vector_tags) = 2
  /\ commits >= 1
  /\ residual[<<0, 1>>] = <<2>>
  /\ _local_re = <<0, 0>>

\* C5 as stated: in every reachable state the length of each binding array equals
\* the size of the active tag set of its namespace
C5_BindingLengthAlwaysMatches ==
  phase = "constructed"
  => /\ Len(_re_blocks) = Len(_vector_tags)
     /\ Len(_ke_blocks) = Len(_matrix_tags)

\* C5 amended: the length of a binding array equals the size of the active tag set
\* right after construction and right after the prepare call of its namespace
C5_BindingLengthAfterConstructOrPrepare ==
  /\ (phase = "constructed" /\ call.op \in {"construct", "prepareVectorTag"})
       => Len(_re_blocks) = Len(_vector_tags)
  /\ (phase = "constructed" /\ call.op \in {"construct", "prepareMatrixTag"})
       => Len(_ke_blocks) = Len(_matrix_tags)

\* the set grew from one tag to two by a use call, and prepare resized the bindings
C5_Witness ==
  /\ phase = "constructed"
  /\ call.op = "prepareVectorTag"
  /\ _tag_params.vector_tags = <<"nontime">>
  /\ _tag_params.extra_vector_tags = <<>>
  /\ Len(_vector_tags) = 2
  /\ Len(_re_blocks) = 2

\* the tag id the use call of a step names, or -1 when the registry does not know it
CalledTagNext(registry) ==
  IF call'.name # ""
  THEN IF call'.name \in DOMAIN registry THEN registry[call'.name] ELSE -1
  ELSE IF call'.id \in Range(registry) THEN call'.id ELSE -1

\* C6: useVectorTag / useMatrixTag with a name or id the registry of that namespace
\* does not know raises a lookup error and leaves the active tag sets as they were
C6_UnregisteredUseFails ==
  [][ /\ (call'.op = "useVectorTag" /\ CalledTagNext(vector_registry) = -1)
           => /\ err'.kind = "lookup"
              /\ phase' \in {"aborted", "constructed"}
              /\ _vector_tags' = _vector_tags
              /\ _matrix_tags' = _matrix_tags
      /\ (call'.op = "useMatrixTag" /\ CalledTagNext(matrix_registry) = -1)
           => /\ err'.kind = "lookup"
              /\ phase' \in {"aborted", "constructed"}
              /\ _vector_tags' = _vector_tags
              /\ _matrix_tags' = _matrix_tags ]_vars

C6_Witness ==
  /\ call.op = "useVectorTag"
  /\ call.id = 2
  /\ err.kind = "lookup"
  /\ phase = "constructed"
  /\ _vector_tags = <<0, 1>>

NoDuplicates(tags) == \A i, j \in DOMAIN tags : tags[i] = tags[j] => i = j

\* C7: useVectorTag / useMatrixTag, by name or by id, with a tag that is already
\* active changes neither the active set nor its size, and no tag is ever held twice
C7_UseActiveTagIsNoOp ==
  [][ /\ (call'.op = "useVectorTag" /\ CalledTagNext(vector_registry) \in Range(_vector_tags))
           => _vector_tags' = _vector_tags
      /\ (call'.op = "useMatrixTag" /\ CalledTagNext(matrix_registry) \in Range(_matrix_tags))
           => _matrix_tags' = _matrix_tags
      /\ NoDuplicates(_vector_tags')
      /\ NoDuplicates(_matrix_tags') ]_vars

\* useVectorTag("time") on an object constructed with "time" selected: held once
C7_Witness ==
  /\ phase = "constructed"
  /\ call.op = "useVectorTag"
  /\ call.name = "time"
  /\ _tag_params.vector_tags = <<"nontime", "time">>
  /\ _tag_params.extra_vector_tags = <<>>
  /\ _vector_tags = <<vector_registry["time"], vector_registry["nontime"]>>

AllRegistered(names, registry) == \A i \in DOMAIN names : names[i] \in DOMAIN registry

ResolvedIDs(names, registry) == {registry[names[i]] : i \in DOMAIN names}

\* C8 as stated: for every non-empty vector-tag and matrix-tag selection, with
\* registered extra names, construction succeeds and each active set holds exactly
\* the ids of the configured and extra names of its namespace, each once
C8_ConstructionSucceeds ==
  (call.op = "construct"
     /\ IsValid(_tag_params.vector_tags) /\ IsValid(_tag_params.matrix_tags)
     /\ AllRegistered(_tag_params.extra_vector_tags, vector_registry)
     /\ AllRegistered(_tag_params.extra_matrix_tags, matrix_registry))
  => /\ phase = "constructed"
     /\ Range(_vector_tags) \subseteq Range(vector_registry)
     /\ Range(_matrix_tags) \subseteq Range(matrix_registry)

\* C8 amended: when, in addition, every configured name is registered, construction
\* succeeds and each active set holds exactly the resolved ids, each once
C8_ConstructionOfRegisteredSucceeds ==
  (call.op = "construct"
     /\ IsValid(_tag_params.vector_tags) /\ IsValid(_tag_params.matrix_tags)
     /\ AllRegistered(_tag_params.vector_tags \o _tag_params.extra_vector_tags,
                      vector_registry)
     /\ AllRegistered(_tag_params.matrix_tags \o _tag_params.extra_matrix_tags,
                      matrix_registry))
  => /\ phase = "constructed"
     /\ err.kind = "none"
     /\ Range(_vector_tags) =
          ResolvedIDs(_tag_params.vector_tags \o _tag_params.extra_vector_tags,
                      vector_registry)
     /\ Range(_matrix_tags) =
          ResolvedIDs(_tag_params.matrix_tags \o _tag_params.extra_matrix_tags,
                      matrix_registry)
     /\ NoDuplicates(_vector_tags)
     /\ NoDuplicates(_matrix_tags)

C8_Witness ==
  /\ call.op = "construct"
  /\ phase = "constructed"
  /\ _tag_params.vector_tags = <<"time", "time">>
  /\ _tag_params.extra_vector_tags = <<"nontime">>
  /\ _tag_params.matrix_tags = <<"system", "nontime">>
  /\ _tag_params.extra_matrix_tags = <<"system">>
  /\ Len(_vector_tags) = 2
  /\ Len(_matrix_tags) = 2

HasUnregistered(names, registry) == ~AllRegistered(names, registry)

\* C10 as stated: construction with an extra tag name the registry of its namespace
\* does not know fails with a lookup error; the name is not merged into the active
\* set and no tag is created
C10_UnregisteredExtraIsLookupError ==
  (call.op = "construct"
     /\ (HasUnregistered(_tag_params.extra_vector_tags, vector_registry)
           \/ HasUnregistered(_tag_params.extra_matrix_tags, matrix_registry)))
  => /\ phase = "failed"
     /\ err.kind = "lookup"
     /\ Range(_vector_tags) \subseteq Range(VectorTagRegistry)
     /\ Range(_matrix_tags) \subseteq Range(MatrixTagRegistry)
     /\ vector_registry = VectorTagRegistry
     /\ matrix_registry = MatrixTagRegistry

\* C10 amended: such a construction fails, nothing unregistered is merged and no tag
\* is created; the error is a lookup error unless an empty selection has already
\* raised the configuration error before the extra name was looked up
C10_UnregisteredExtraFails ==
  (call.op = "construct"
     /\ (HasUnregistered(_tag_params.extra_vector_tags, vector_registry)
           \/ HasUnregistered(_tag_params.extra_matrix_tags, matrix_registry)))
  => /\ phase = "failed"
     /\ (/\ IsValid(_tag_params.vector_tags)
         /\ (HasUnregistered(_tag_params.extra_vector_tags, vector_registry)
               \/ IsValid(_tag_params.matrix_tags)))
          => err.kind = "lookup"
     /\ err.kind \in {"lookup", "config"}
     /\ Range(_vector_tags) \subseteq Range(VectorTagRegistry)
     /\ Range(_matrix_tags) \subseteq Range(MatrixTagRegistry)
     /\ vector_registry = VectorTagRegistry
     /\ matrix_registry = MatrixTagRegistry

C10_Witness ==
  /\ call.op = "construct"
  /\ phase = "failed"
  /\ err.kind = "lookup"
  /\ _tag_params.vector_tags = <<"nontime">>
  /\ _tag_params.extra_vector_tags = <<>>
  /\ _tag_params.matrix_tags = <<"system">>
  /\ _tag_params.extra_matrix_tags = <<"ghost">>
  /\ _matrix_tags = <<matrix_registry["system"]>>

VectorCommitOps == {"accumulateTaggedLocalResidual", "assignTaggedLocalResidual"}

MatrixCommitOps == {"accumulateTaggedLocalMatrix", "assignTaggedLocalMatrix"}

\* no prepare call of this cycle covers the active set: none was made since
\* construction, or a use call has grown the set since the last one
VectorUnprepared == vcycle.ivar = -1 \/ vcycle.tags # _vector_tags

MatrixUnprepared == mcycle.ivar = -1 \/ mcycle.tags # _matrix_tags

\* C11: accumulate* / assign* called without a preceding prepare* of the same cycle
\* (directly after construction, or after a use*Tag call that grew the active set)
\* is reported by a failed assertion and does not read or write blocks through
\* unset or stale bindings
C11_CommitWithoutPrepareIsAsserted ==
  /\ (call.op \in VectorCommitOps /\ VectorUnprepared) => err.kind = "assertion"
  /\ (call.op \in MatrixCommitOps /\ MatrixUnprepared) => err.kind = "assertion"

PreparedJacobianRefs == {<<mcycle.ivar, mcycle.jvar, t>> : t \in Range(mcycle.tags)}

\* C12: after prepareMatrixTag(i, j) and a fill with X, two accumulateTaggedLocalMatrix
\* calls leave every bound block equal to its value at the fill plus 2X, entry by
\* entry, and assignTaggedLocalMatrix leaves every bound block equal to X, whatever
\* it held before
C12_MatrixAccumulateAndAssign ==
  /\ (phase = "constructed" /\ mcycle.filled
        /\ mcycle.calls = <<"accumulate", "accumulate">>)
     => /\ Range(_ke_blocks) = PreparedJacobianRefs
        /\ \A r \in PreparedJacobianRefs :
             jacobian[r] = [i \in 1..Rows(mcycle.x) |-> [j \in 1..Cols(mcycle.x) |->
                              mcycle.pre[r][i][j] + 2 * mcycle.x[i][j]]]
  /\ (phase = "constructed" /\ mcycle.filled /\ mcycle.calls # <<>>
        /\ Last(mcycle.calls) = "assign")
     => /\ Range(_ke_blocks) = PreparedJacobianRefs
        /\ \A r \in PreparedJacobianRefs : jacobian[r] = mcycle.x

\* two accumulations of a 1 x 2 contribution into the blocks of both matrix tags
C12_Witness ==
  /\ phase = "constructed"
  /\ mcycle.filled
  /\ mcycle.calls = <<"accumulate", "accumulate">>
  /\ mcycle.ivar = 0
  /\ mcycle.jvar = 1
  /\ Len(mcycle.tags) = 2
  /\ mcycle.x = <<<<1, 0>>>>
  /\ jacobian[<<0, 1, 1>>] = <<<<4, 2>>>>
  /\ jacobian[<<0, 1, 0>>] = <<<<3, 1>>>>

\* C13: right after prepareMatrixTag(i, j) there is one bound block per active matrix
\* tag, the block of (i, j) and that tag, and the scratch matrix has the rows and
\* columns of the first bound block and holds only zeros
C13_PrepareMatrixBindsAndZeroes ==
  (phase = "constructed" /\ call.op = "prepareMatrixTag")
  => /\ Len(_ke_blocks) = Len(_matrix_tags)
     /\ \A k \in 1..Len(_matrix_tags) :
          _ke_blocks[k] = <<call.ivar, call.jvar, _matrix_tags[k]>>
     /\ Rows(_local_ke) = Rows(jacobian[_ke_blocks[1]])
     /\ Cols(_local_ke) = Cols(jacobian[_ke_blocks[1]])
     /\ Rows(_local_ke) = BlockSize(call.ivar)
     /\ Cols(_local_ke) = BlockSize(call.jvar)
     /\ \A i \in 1..Rows(_local_ke) : \A j \in 1..Cols(_local_ke) : _local_ke[i][j] = 0

\* prepared for the pair (0, 1) after a non-zero contribution to the pair (0, 0)
C13_Witness ==
  /\ phase = "constructed"
  /\ call.op = "prepareMatrixTag"
  /\ call.ivar = 0
  /\ call.jvar = 1
  /\ Len(_matrix_tags) = 2
  /\ commits >= 1
  /\ jacobian[<<0, 0, 1>>] = <<<<2>>>>
  /\ _ke_blocks = <<<<0, 1, 0>>, <<0, 1, 1>>>>
  /\ _local_ke = <<<<0, 0>>>>

\* C14: every fatal error (the configuration error, the lookup error of an extra tag
\* name, the lookup error of useVectorTag / useMatrixTag by name or by id) carries a
\* message that names the owning computation instance
C14_ErrorsNameOwner ==
  err.kind \in {"config", "lookup"} => OwnerName \in Range(err.msg)

\* C15: prepareVectorTag overwrites the bindings and the scratch vector whatever an
\* earlier cycle left in them: from a prepareVectorTag(v) until the next fill every
\* binding is a block of v, the scratch vector holds only zeros, and
\* accumulateTaggedLocalResidual calls leave every destination block as it was
\* at that prepare
C15_PrepareOverwritesEarlierCycle ==
  (phase = "constructed" /\ vcycle.ivar # -1 /\ ~vcycle.filled)
  => /\ Len(_re_blocks) = Len(vcycle.tags)
     /\ \A k \in 1..Len(_re_blocks) : _re_blocks[k] = <<vcycle.ivar, vcycle.tags[k]>>
     /\ Len(_local_re) = BlockSize(vcycle.ivar)
     /\ \A k \in 1..Len(_local_re) : _local_re[k] = 0
     /\ (\A k \in 1..Len(vcycle.calls) : vcycle.calls[k] = "accumulate")
          => residual = vcycle.pre

\* prepareVectorTag(0), a fill with <<1>> and an accumulation, then prepareVectorTag(1)
\* and an accumulation without a fill
C15_Witness ==
  /\ phase = "constructed"
  /\ call.op = "accumulateTaggedLocalResidual"
  /\ vcycle.ivar = 1
  /\ ~vcycle.filled
  /\ vcycle.calls = <<"accumulate">>
  /\ commits = 2
  /\ residual[<<0, 1>>] = <<2>>
  /\ residual[<<1, 1>>] = <<2, 2>>
  /\ _re_blocks = <<<<1, 1>>>>
  /\ _local_re = <<0, 0>>

\* C16: once construction has succeeded, whatever use*Tag and prepare* calls follow
\* (use*Tag calls that fail included), both active tag sets hold at least one tag,
\* no step takes a tag out of either set, and the "at least one active tag"
\* assertion of prepare* never fails
C16_ActiveSetsStayNonEmpty ==
  [][ phase' \in {"constructed", "aborted", "crashed"}
        => /\ Len(_vector_tags') >= 1
           /\ Len(_matrix_tags') >= 1
           /\ phase = "constructed"
                => /\ Range(_vector_tags) \subseteq Range(_vector_tags')
                   /\ Range(_matrix_tags) \subseteq Range(_matrix_tags')
           /\ err'.kind # "assertion"
           /\ phase' # "crashed" ]_vars

\* a use call that failed and was survived, after a use call that grew the vector
\* set and prepare calls that bound the blocks of both namespaces
C16_Witness ==
  /\ phase = "constructed"
  /\ call.op = "useMatrixTag"
  /\ call.name = "ghost"
  /\ err.kind = "lookup"
  /\ _tag_params.vector_tags = <<"nontime">>
  /\ _vector_tags = <<0, 1>>
  /\ _matrix_tags = <<1>>
  /\ _re_blocks = <<<<1, 0>>, <<1, 1>>>>
  /\ _ke_blocks = <<<<0, 1, 1>>>>

\* the i-th smallest member of a set of tag ids
NthSmallest(S, i) == CHOOSE t \in S : Cardinality({u \in S : u < t}) = i - 1

\* C17: right after prepareVectorTag(v) the binding at position i is the block of v
\* and the i-th tag id in ascending order of the active vector tags, whatever the
\* order in which configuration and use*Tag calls named them; prepareMatrixTag
\* likewise for the active matrix tags
C17_BindingsFollowAscendingTagOrder ==
  /\ (phase = "constructed" /\ call.op = "prepareVectorTag")
       => /\ Len(_re_blocks) = Cardinality(Range(_vector_tags))
          /\ \A i \in 1..Len(_re_blocks) :
               _re_blocks[i] = <<call.ivar, NthSmallest(Range(_vector_tags), i)>>
  /\ (phase = "constructed" /\ call.op = "prepareMatrixTag")
       => /\ Len(_ke_blocks) = Cardinality(Range(_matrix_tags))
          /\ \A i \in 1..Len(_ke_blocks) :
               _ke_blocks[i] = <<call.ivar, call.jvar, NthSmallest(Range(_matrix_tags), i)>>

\* the configuration named "nontime" (id 1) before "time" (id 0), and
\* useMatrixTag added "nontime" (id 0) to the configured "system" (id 1)
C17_Witness ==
  /\ phase = "constructed"
  /\ call.op = "prepareVectorTag"
  /\ call.ivar = 1
  /\ _tag_params.vector_tags = <<"nontime", "time">>
  /\ vector_registry["nontime"] > vector_registry["time"]
  /\ _re_blocks = <<<<1, 0>>, <<1, 1>>>>
  /\ _tag_params.matrix_tags = <<"system">>
  /\ matrix_registry["system"] > matrix_registry["nontime"]
  /\ _ke_blocks = <<<<0, 1, 0>>, <<0, 1, 1>>>>

\* C18: a block that accumulateTaggedLocalResidual or assignTaggedLocalResidual
\* changes is the block of the variable of the last prepareVectorTag and of a tag
\* that was active at that prepare; the blocks of other variables, and the block of
\* a tag that useVectorTag added after that prepare, stay as they were; likewise
\* for the matrix commit operations and the last prepareMatrixTag
C18_CommitWritesOnlyPreparedBlocks ==
  [][ /\ (call'.op \in VectorCommitOps /\ vcycle.ivar # -1)
           => \A r \in ResidualRefs :
                residual'[r] # residual[r] => r \in PreparedResidualRefs
      /\ (call'.op \in MatrixCommitOps /\ mcycle.ivar # -1)
           => \A r \in JacobianRefs :
                jacobian'[r] # jacobian[r] => r \in PreparedJacobianRefs ]_vars

\* prepareVectorTag(1) with tag 1 active, then useVectorTag(0), a fill and an
\* accumulation: the block of tag 1 has grown, the block of tag 0 has not
C18_Witness ==
  /\ phase = "constructed"
  /\ call.op = "accumulateTaggedLocalResidual"
  /\ vcycle.ivar = 1
  /\ vcycle.tags = <<1>>
  /\ _vector_tags = <<0, 1>>
  /\ vcycle.x = <<1, 1>>
  /\ commits = 1
  /\ residual[<<1, 1>>] = <<3, 3>>
  /\ residual[<<1, 0>>] = <<1, 1>>
  /\ residual[<<0, 1>>] = <<1>>

VectorOps == {"useVectorTag", "prepareVectorTag"} \cup VectorCommitOps

MatrixOps == {"useMatrixTag", "prepareMatrixTag"} \cup MatrixCommitOps

\* C19: the two namespaces do not touch each other: a vector operation (useVectorTag,
\* prepareVectorTag, accumulate / assignTaggedLocalResidual) leaves the matrix-tag
\* set, the matrix bindings, the scratch matrix and every Jacobian block as they
\* were, and a matrix operation leaves the vector-tag set, the vector bindings, the
\* scratch vector and every residual block as they were
C19_NamespacesAreIndependent ==
  [][ /\ call'.op \in VectorOps
           => UNCHANGED <<_matrix_tags, _ke_blocks, _local_ke, jacobian>>
      /\ call'.op \in MatrixOps
           => UNCHANGED <<_vector_tags, _re_blocks, _local_re, residual>> ]_vars

\* a residual assignment on an object whose matrix side holds two tags, bound
\* blocks, a filled scratch matrix and an accumulated Jacobian block
C19_Witness ==
  /\ phase = "constructed"
  /\ call.op = "assignTaggedLocalResidual"
  /\ commits = 2
  /\ _vector_tags = <<0, 1>>
  /\ residual[<<1, 0>>] = <<1, 1>>
  /\ residual[<<1, 1>>] = <<1, 1>>
  /\ _matrix_tags = <<0, 1>>
  /\ _ke_blocks = <<<<0, 1, 1>>>>
  /\ _local_ke = <<<<1, 1>>>>
  /\ jacobian[<<0, 1, 1>>] = <<<<3, 3>>>>

\* C20: the four commit operations change destination blocks only: both scratch
\* buffers, both binding arrays and both active tag sets stay as they were; and
\* prepare* and use*Tag never change what a destination block holds
C20_CommitAndSetupFrames ==
  [][ /\ call'.op \in VectorCommitOps \cup MatrixCommitOps
           => UNCHANGED <<_local_re, _local_ke, _re_blocks, _ke_blocks,
                          _vector_tags, _matrix_tags>>
      /\ call'.op \in {"useVectorTag", "useMatrixTag", "prepareVectorTag", "prepareMatrixTag"}
           => UNCHANGED <<residual, jacobian>> ]_vars

\* a matrix assignment after an accumulation: the blocks of both tags hold the
\* contribution, and the scratch matrix still holds it too
C20_Witness ==
  /\ phase = "constructed"
  /\ call.op = "assignTaggedLocalMatrix"
  /\ commits = 2
  /\ mcycle.calls = <<"accumulate", "assign">>
  /\ _matrix_tags = <<0, 1>>
  /\ _ke_blocks = <<<<0, 1, 0>>, <<0, 1, 1>>>>
  /\ _local_ke = <<<<1, 1>>>>
  /\ jacobian[<<0, 1, 0>>] = <<<<1, 1>>>>
  /\ jacobian[<<0, 1, 1>>] = <<<<1, 1>>>>
  /\ _local_re = <<0>>

====
